---- MODULE Spec2Model ----
(***************************************************************************)
(* API-gateway chargeback backend (src/main.py, src/schemas.py).           *)
(*                                                                         *)
(* The record store (MongoDB) is modelled by three collections: plan,     *)
(* subscription and usageevent.  Money is kept in fixed-point units of    *)
(* 10^-6 (micro-units), so round(amount, 6) is exact.  Strings are         *)
(* sequences of one-character strings; Optional[T] is a sequence of       *)
(* length 0 (None) or 1.                                                   *)
(*                                                                         *)
(* The chargeback report only reads the store, and what is stated of it    *)
(* is stated of one request against one store: it is one step.  The        *)
(* metrics handlers are two steps, their count query and their aggregate,  *)
(* with the other requests served in between.                              *)
(***************************************************************************)
EXTENDS Integers, Sequences, FiniteSets, Bags, TLC

VARIABLES
    plans,      \* db["plan"]: sequence of plan documents, in insertion order
    subs,       \* db["subscription"]: sequence of subscription documents
    usage,      \* db["usageevent"]: bag of usage-event documents
    resp,       \* the response of the last request served
    mt,         \* a metrics request between its count and its aggregate query
    tok,        \* the period token handed to month_bounds
    mb          \* what month_bounds made of tok

vars == <<plans, subs, usage, resp, mt, tok, mb>>

----------------------------------------------------------------------------
(* Bounds of the model.                                                    *)

MaxPlans == 1
MaxSubs == 2
MaxUsage == 2

----------------------------------------------------------------------------
(* datetime (the part of it month_bounds and the store's comparisons use)  *)

MINYEAR == 1
MAXYEAR == 9999

None == <<>>
Some(x) == <<x>>

Dt(y, m, d, s) == [year |-> y, month |-> m, day |-> d, sec |-> s]
NoDt == Dt(0, 0, 0, 0)

is_leap(y) == y % 4 = 0 /\ (y % 100 # 0 \/ y % 400 = 0)

days_in_month(y, m) ==
    IF m = 2 THEN (IF is_leap(y) THEN 29 ELSE 28)
    ELSE IF m \in {4, 6, 9, 11} THEN 30 ELSE 31

days_before_year(y) ==
    LET p == y - 1 IN p * 365 + (p \div 4) - (p \div 100) + (p \div 400)

\* days before the first of month m: the table of a common year, plus the leap day
days_before_month(y, m) ==
    <<0, 31, 59, 90, 120, 151, 181, 212, 243, 273, 304, 334>>[m]
        + (IF m > 2 /\ is_leap(y) THEN 1 ELSE 0)

\* datetime.toordinal(): day 1 is 0001-01-01
toordinal(d) == days_before_year(d.year) + days_before_month(d.year, d.month) + d.day

\* datetime comparison: year, month, day, then the time of day
DtLt(a, b) ==
    \/ a.year < b.year
    \/ a.year = b.year /\ a.month < b.month
    \/ a.year = b.year /\ a.month = b.month /\ a.day < b.day
    \/ a.year = b.year /\ a.month = b.month /\ a.day = b.day /\ a.sec < b.sec
DtLe(a, b) == a = b \/ DtLt(a, b)

----------------------------------------------------------------------------
(* datetime.strptime(s, "%Y-%m-%d"): the format compiles to the regex      *)
(*   (\d\d\d\d)-(1[0-2]|0[1-9]|[1-9])-(3[01]|[12]\d|0[1-9]|[1-9]| [1-9])   *)
(* which is matched at the start of s (alternatives in order, with         *)
(* backtracking); text left over after the match, or a date that does not *)
(* exist, is a ValueError.                                                 *)

DigitVal ==
    [c \in {"0", "1", "2", "3", "4", "5", "6", "7", "8", "9"} |->
        CASE c = "0" -> 0 [] c = "1" -> 1 [] c = "2" -> 2 [] c = "3" -> 3
          [] c = "4" -> 4 [] c = "5" -> 5 [] c = "6" -> 6 [] c = "7" -> 7
          [] c = "8" -> 8 [] c = "9" -> 9]
IsDigit(c) == c \in DOMAIN DigitVal
At(s, i) == IF i \in 1..Len(s) THEN s[i] ELSE "$"
Num(s, i) == IF IsDigit(At(s, i)) THEN DigitVal[At(s, i)] ELSE -1

\* the alternatives of %m that match at position i, in the regex's order
MonthAlts(s, i) ==
    LET a == Num(s, i)
        b == Num(s, i + 1)
    IN  (IF a = 1 /\ b \in 0..2 THEN <<[val |-> 10 + b, next |-> i + 2]>> ELSE <<>>)
     \o (IF a = 0 /\ b \in 1..9 THEN <<[val |-> b, next |-> i + 2]>> ELSE <<>>)
     \o (IF a \in 1..9 THEN <<[val |-> a, next |-> i + 1]>> ELSE <<>>)

\* the alternatives of %d that match at position i, in the regex's order
DayAlts(s, i) ==
    LET a == Num(s, i)
        b == Num(s, i + 1)
    IN  (IF a = 3 /\ b \in 0..1 THEN <<[val |-> 30 + b, next |-> i + 2]>> ELSE <<>>)
     \o (IF a \in 1..2 /\ b \in 0..9 THEN <<[val |-> 10 * a + b, next |-> i + 2]>> ELSE <<>>)
     \o (IF a = 0 /\ b \in 1..9 THEN <<[val |-> b, next |-> i + 2]>> ELSE <<>>)
     \o (IF a \in 1..9 THEN <<[val |-> a, next |-> i + 1]>> ELSE <<>>)
     \o (IF At(s, i) = " " /\ b \in 1..9 THEN <<[val |-> b, next |-> i + 2]>> ELSE <<>>)

ValueError == [ok |-> FALSE, value |-> NoDt]

strptime(s) ==
    LET yearOk == \A i \in 1..4 : IsDigit(At(s, i))
        year == 1000 * Num(s, 1) + 100 * Num(s, 2) + 10 * Num(s, 3) + Num(s, 4)
        ms == SelectSeq(MonthAlts(s, 6),
                        LAMBDA m : At(s, m.next) = "-" /\ DayAlts(s, m.next + 1) # <<>>)
    IN  IF ~yearOk \/ At(s, 5) # "-" \/ ms = <<>> THEN ValueError
        ELSE LET month == Head(ms)
                 day == Head(DayAlts(s, month.next + 1))
             IN  IF day.next # Len(s) + 1 THEN ValueError          \* unconverted data remains
                 ELSE IF year < MINYEAR \/ day.val > days_in_month(year, month.val)
                      THEN ValueError                              \* no such date
                      ELSE [ok |-> TRUE, value |-> Dt(year, month.val, day.val, 0)]

\* datetime.replace(year=, month=, day=): a year beyond MAXYEAR is a ValueError
replace(d, y, m, day) ==
    IF y > MAXYEAR \/ y < MINYEAR \/ day > days_in_month(y, m) THEN ValueError
    ELSE [ok |-> TRUE, value |-> Dt(y, m, day, d.sec)]

\* month_bounds: status 200 with (start, end); 400 for the HTTPException it raises;
\* 500 for an exception that leaves it unhandled.
Bounds(st, s, e) == [status |-> st, start |-> s, end |-> e]

month_bounds(period) ==
    LET p == strptime(period \o <<"-", "0", "1">>)
    IN  IF ~p.ok THEN Bounds(400, NoDt, NoDt)
        ELSE LET start == p.value
                 end == IF start.month = 12
                        THEN replace(start, start.year + 1, 1, 1)
                        ELSE replace(start, start.year, start.month + 1, 1)
             IN  IF end.ok THEN Bounds(200, start, end.value)
                 ELSE Bounds(500, NoDt, NoDt)

----------------------------------------------------------------------------
(* Inputs of the requests.                                                 *)

DecStart == Dt(2023, 12, 1, 0)
JanStart == Dt(2024, 1, 1, 0)
FebStart == Dt(2024, 2, 1, 0)

\* datetime.utcnow() at the time of a request
NowSet == {Dt(2024, 1, 15, 43200)}

P202312 == <<"2", "0", "2", "3", "-", "1", "2">>
P202401 == <<"2", "0", "2", "4", "-", "0", "1">>
P202413 == <<"2", "0", "2", "4", "-", "1", "3">>
Periods == {P202312, P202401, P202413}

\* str(ObjectId): the string of the n-th identifier the store hands out
StrOid(n) == <<"oid", n>>
\* a string that is no ObjectId
NotAnOid == <<"gold", 0>>
PlanRefs == {StrOid(1), NotAnOid}

\* PlanIn bodies (prices in micro-units); pydantic accepts any float and int
PlanBody(mp, inc, ov) ==
    [monthly_price |-> mp, included_calls |-> inc, overage_price_per_call |-> ov]
PlanInputs ==
    { PlanBody(100000000, 1, 500),
      PlanBody(0, 10000, 500),
      PlanBody(-5000000, -1, 500) }

\* SubscriptionIn bodies
SubBody(c, a, p, sd, st) ==
    [consumer_id |-> c, api_id |-> a, plan_id |-> p, start_date |-> sd, status |-> st]
SubInputs ==
    { SubBody("c1", "a1", StrOid(1), Some(JanStart), "active"),
      SubBody("c2", "a1", NotAnOid, Some(FebStart), "active"),
      SubBody("c1", "a1", StrOid(1), None, "paused"),
      SubBody("c2", "a2", StrOid(1), Some(JanStart), "canceled") }

\* UsageEventIn bodies
EvtBody(a, c, ts, lat, sc) ==
    [api_id |-> a, consumer_id |-> c, timestamp |-> ts, latency_ms |-> lat,
     status_code |-> sc]
UsageInputs ==
    { EvtBody("a1", "c1", Some(JanStart), None, 200),
      EvtBody("a1", "c1", Some(DecStart), None, 200),
      EvtBody("a2", "c1", Some(JanStart), None, 200),
      EvtBody("a1", "c2", None, None, 200) }

----------------------------------------------------------------------------
(* The store.                                                              *)

\* count_documents on usageevent: the number of documents among the matching ones
CountUsage(matching) == BagCardinality([e \in matching |-> usage[e]])

\* a closed interval instead of the half-open one
InRangeClosed(ts, start, end) == DtLe(start, ts) /\ DtLe(ts, end)

\* {"$gte": start, "$lt": end}
InRange(ts, start, end) == DtLe(start, ts) /\ DtLt(ts, end)

\* oid(): the ObjectId of a string, or the 400 it raises
IsOidStr(s) == s[1] = "oid"

Created(op, id) == [op |-> op, status |-> 200, id |-> id]
Failed(op, st) == [op |-> op, status |-> st]

\* POST /plans
create_plan(plan) ==
    /\ Len(plans) < MaxPlans
    /\ plans' = Append(plans, [_id |-> Len(plans) + 1] @@ plan)
    /\ resp' = Created("create_plan", StrOid(Len(plans) + 1))
    /\ UNCHANGED <<subs, usage, mt, tok, mb>>

\* PUT /plans/{plan_id}
update_plan(plan_id, plan) ==
    LET hit == {i \in 1..Len(plans) : StrOid(plans[i]._id) = plan_id}
    IN  /\ IF ~IsOidStr(plan_id)
           THEN /\ resp' = Failed("update_plan", 400)
                /\ UNCHANGED plans
           ELSE IF hit = {}
           THEN /\ resp' = Failed("update_plan", 404)
                /\ UNCHANGED plans
           ELSE /\ plans' = [i \in 1..Len(plans) |->
                                IF i \in hit THEN [_id |-> plans[i]._id] @@ plan
                                ELSE plans[i]]
                /\ resp' = [op |-> "update_plan", status |-> 200]
        /\ UNCHANGED <<subs, usage, mt, tok, mb>>

\* POST /subscriptions
create_subscription(sub, now) ==
    LET data == IF sub.start_date = None
                THEN [sub EXCEPT !.start_date = now]
                ELSE [sub EXCEPT !.start_date = sub.start_date[1]]
    IN  /\ Len(subs) < MaxSubs
        /\ subs' = Append(subs, data)
        /\ resp' = Created("create_subscription", Len(subs) + 1)
        /\ UNCHANGED <<plans, usage, mt, tok, mb>>

\* POST /usage
ingest_usage(evt, now) ==
    LET data == IF evt.timestamp = None
                THEN [evt EXCEPT !.timestamp = now]
                ELSE [evt EXCEPT !.timestamp = evt.timestamp[1]]
    IN  /\ BagCardinality(usage) < MaxUsage
        /\ usage' = usage (+) SetToBag({data})
        /\ resp' = Created("ingest_usage", BagCardinality(usage) + 1)
        /\ UNCHANGED <<plans, subs, mt, tok, mb>>

----------------------------------------------------------------------------
(* GET /chargeback                                                         *)

Max(a, b) == IF a >= b THEN a ELSE b

\* plans = {str(p["_id"]): p for p in db["plan"].find()}; plans.get(plan_id)
PlanGet(plan_id) ==
    LET hit == {i \in 1..Len(plans) : StrOid(plans[i]._id) = plan_id}
    IN  IF hit = {} THEN None ELSE Some(plans[CHOOSE i \in hit : TRUE])

\* the defaults of PlanIn instead of the zero-cost plan
FallbackDefaults == PlanBody(0, 10000, 500)

\* the plan that stands in for one the Plan table does not hold
FallbackPlan == PlanBody(0, 0, 0)

\* "$lt" instead of "$lte"
SubMatchesStrict(s, end) == s.status = "active" /\ DtLt(s.start_date, end)

\* db["subscription"].find({"status": "active", "start_date": {"$lte": end}})
SubMatches(s, end) == s.status = "active" /\ DtLe(s.start_date, end)

\* the filter of the usage count of one subscription
UsageMatches(e, s, start, end) ==
    /\ e.consumer_id = s.consumer_id
    /\ e.api_id = s.api_id
    /\ InRange(e.timestamp, start, end)

Overage(usage_count, included) == Max(0, usage_count - included)

Amount(plan, overage) == plan.monthly_price + overage * plan.overage_price_per_call

\* the body of the loop: the line of subscription s
ReportLine(s, period, start, end) ==
    LET got == PlanGet(s.plan_id)
        plan == IF got = None THEN FallbackPlan ELSE got[1]
        usage_count == CountUsage({e \in DOMAIN usage : UsageMatches(e, s, start, end)})
        overage == Overage(usage_count, plan.included_calls)
    IN  [consumer_id |-> s.consumer_id, api_id |-> s.api_id, plan_id |-> s.plan_id,
         period |-> period, calls |-> usage_count, overage_calls |-> overage,
         amount |-> Amount(plan, overage)]

\* a handler that moves the start of the subscriptions it bills to the period's start
ChargebackRestarts(start) ==
    /\ subs' = [i \in 1..Len(subs) |->
                   IF subs[i].status = "active"
                   THEN [subs[i] EXCEPT !.start_date = start] ELSE subs[i]]
    /\ UNCHANGED <<plans, usage>>

\* what the handler writes to the store: nothing
ChargebackWrites(start) == UNCHANGED <<plans, subs, usage>>

\* again: this response follows a chargeback response for the same period (history)
chargeback_report(period) ==
    \E b \in {month_bounds(period)} :
    LET found == SelectSeq(subs, LAMBDA s : SubMatches(s, b.end))
        report == [i \in 1..Len(found) |-> ReportLine(found[i], period, b.start, b.end)]
        again == resp.op = "chargeback_report" /\ resp.period = period
    IN  /\ resp' = IF b.status # 200
                   THEN [op |-> "chargeback_report", status |-> b.status, period |-> period,
                         items |-> <<>>, queries |-> 0, again |-> again]
                   ELSE [op |-> "chargeback_report", status |-> 200, period |-> period,
                         items |-> report, queries |-> 2 + Len(found), again |-> again]
        /\ ChargebackWrites(b.start)
        /\ UNCHANGED <<mt, tok, mb>>

----------------------------------------------------------------------------
(* The service: the store's writers and the chargeback report.             *)

Idle == [pc |-> "idle"]

Init ==
    /\ plans = <<>>
    /\ subs = <<>>
    /\ usage = EmptyBag
    /\ resp = [op |-> "none", status |-> 0]
    /\ mt = Idle
    /\ tok = <<>>
    /\ mb = [called |-> FALSE]

CreatePlan == \E p \in PlanInputs : create_plan(p)
UpdatePlan == \E id \in PlanRefs, p \in PlanInputs : update_plan(id, p)
CreateSubscription == \E s \in SubInputs, now \in NowSet : create_subscription(s, now)
IngestUsage == \E e \in UsageInputs, now \in NowSet : ingest_usage(e, now)
ChargebackReport == \E p \in Periods : chargeback_report(p)

Next ==
    \/ CreatePlan
    \/ UpdatePlan
    \/ CreateSubscription
    \/ IngestUsage
    \/ ChargebackReport

Spec == Init /\ [][Next]_vars

----------------------------------------------------------------------------
(* Properties of the chargeback report.  Every request replaces resp, so   *)
(* while resp is a report the store is the one the report was made from.   *)

IsReport == resp.op = "chargeback_report" /\ resp.status = 200
ReportBounds == month_bounds(resp.period)
Items == resp.items

\* the subscriptions the report is due to cover, in the store's order
Eligible(b) ==
    SelectSeq(subs, LAMBDA s : s.status = "active" /\ ~DtLt(b.end, s.start_date))

\* the usage events of a line's consumer and API within the report's period
TrueCount(line, b) ==
    BagCardinality([e \in {d \in DOMAIN usage :
                              /\ d.api_id = line.api_id
                              /\ d.consumer_id = line.consumer_id
                              /\ ~DtLt(d.timestamp, b.start)
                              /\ DtLt(d.timestamp, b.end)} |-> usage[e]])

PlanOf(line) == {pl \in {plans[i] : i \in 1..Len(plans)} : StrOid(pl._id) = line.plan_id}

\* C1: a report holds exactly one item per subscription that is active and has
\* start_date <= end, in the store's order, and none for any other subscription;
\* each item carries that subscription's consumer_id, api_id and plan_id and the
\* requested period token.
C1_OneItemPerEligibleSubscription ==
    IsReport => \A b \in {ReportBounds} : \A el \in {Eligible(b)} :
        /\ Len(Items) = Len(el)
        /\ Len(Items) = Cardinality({i \in 1..Len(subs) :
                                        /\ subs[i].status = "active"
                                        /\ DtLe(subs[i].start_date, b.end)})
        /\ \A k \in 1..Len(Items) :
              /\ Items[k].consumer_id = el[k].consumer_id
              /\ Items[k].api_id = el[k].api_id
              /\ Items[k].plan_id = el[k].plan_id
              /\ Items[k].period = resp.period

\* C1 witness: a report that covers a subscription starting exactly at the period's
\* end and leaves out a paused one and one that starts after the end.
C1_Witness ==
    /\ IsReport
    /\ Len(Items) >= 1
    /\ \E k \in 1..Len(Items) : Eligible(ReportBounds)[k].start_date = ReportBounds.end
    /\ \E i \in 1..Len(subs) : subs[i].status # "active"
    /\ Len(Items) < Len(subs)

\* C2: for every line whose plan exists, overage_calls = max(0, calls - included_calls)
\* and amount = monthly_price + overage_calls * overage_price_per_call; with no
\* matching usage event overage_calls = 0 and amount = monthly_price; and 10500 calls
\* under a plan of 10000 included calls, price 100 and overage price 0.0005 make
\* overage_calls = 500 and amount = 100.25.
C2_AmountFormula ==
    /\ Overage(10500, 10000) = 500
    /\ Amount(PlanBody(100000000, 10000, 500), Overage(10500, 10000)) = 100250000
    /\ IsReport =>
          \A k \in 1..Len(Items) : \A pl \in PlanOf(Items[k]) :
              /\ Items[k].overage_calls = Max(0, Items[k].calls - pl.included_calls)
              /\ Items[k].amount = pl.monthly_price
                                     + Items[k].overage_calls * pl.overage_price_per_call
              /\ Items[k].calls = 0 =>
                    /\ Items[k].overage_calls = 0
                    /\ Items[k].amount = pl.monthly_price

\* The part of C2 that holds whatever the plan: the two formulas.
AmountFollowsThePlan ==
    IsReport =>
        \A k \in 1..Len(Items) : \A pl \in PlanOf(Items[k]) :
            /\ Items[k].overage_calls = Max(0, Items[k].calls - pl.included_calls)
            /\ Items[k].amount = pl.monthly_price
                                   + Items[k].overage_calls * pl.overage_price_per_call

\* C3: a request for a well-formed period succeeds whatever the plan references; a
\* line whose plan_id names no plan has amount = 0, calls = the true usage count,
\* overage_calls = calls and the subscription's literal plan_id; the other lines of
\* the report are what their own plan and usage make them.
C3_MissingPlanIsZeroCost ==
    /\ (resp.op = "chargeback_report" /\ ReportBounds.status = 200) => resp.status = 200
    /\ IsReport => \A b \in {ReportBounds} : \A el \in {Eligible(b)} :
          \A k \in 1..Len(Items) :
              /\ Items[k].calls = TrueCount(Items[k], b)
              /\ k <= Len(el) => Items[k].plan_id = el[k].plan_id
              /\ PlanOf(Items[k]) = {} =>
                    /\ Items[k].amount = 0
                    /\ Items[k].overage_calls = Items[k].calls
              /\ \A pl \in PlanOf(Items[k]) :
                    /\ Items[k].overage_calls = Max(0, Items[k].calls - pl.included_calls)
                    /\ Items[k].amount = pl.monthly_price
                          + Items[k].overage_calls * pl.overage_price_per_call

\* C3 witness: a report with a line of a missing plan that has usage, beside a line
\* whose plan exists.
C3_Witness ==
    /\ IsReport
    /\ \E k \in 1..Len(Items) : PlanOf(Items[k]) = {} /\ Items[k].calls >= 1
    /\ \E k \in 1..Len(Items) : PlanOf(Items[k]) # {}

\* C4: calls is the number of usage events of the line's API and consumer with
\* start <= timestamp < end: an event at start counts, an event at end does not, nor
\* do events of another consumer, API or period.
C4_CallsCountHalfOpen ==
    IsReport => \A b \in {ReportBounds} :
        \A k \in 1..Len(Items) :
            /\ Items[k].calls = TrueCount(Items[k], b)
            /\ Items[k].calls =
                  BagCardinality(usage)
                  - BagCardinality([e \in {d \in DOMAIN usage :
                                              \/ d.api_id # Items[k].api_id
                                              \/ d.consumer_id # Items[k].consumer_id
                                              \/ DtLt(d.timestamp, b.start)
                                              \/ DtLe(b.end, d.timestamp)}
                                    |-> usage[e]])

\* C4 witness: a line that counts one event while the store holds a second event of
\* the same consumer and API timestamped exactly at the period's end.
C4_Witness ==
    /\ IsReport
    /\ \E k \in 1..Len(Items) :
          /\ Items[k].calls = 1
          /\ \E d \in DOMAIN usage :
                /\ d.api_id = Items[k].api_id
                /\ d.consumer_id = Items[k].consumer_id
                /\ d.timestamp = ReportBounds.end
          /\ \E d \in DOMAIN usage :
                /\ d.api_id = Items[k].api_id
                /\ d.consumer_id = Items[k].consumer_id
                /\ d.timestamp = ReportBounds.start

\* the items of a response as a bag
ItemBag(r) == [x \in {r.items[k] : k \in 1..Len(r.items)} |->
                  Cardinality({k \in 1..Len(r.items) : r.items[k] = x})]

\* C7: a chargeback request leaves plans, subscriptions and usage events as they
\* are, and a report that follows a report for the same period holds the same
\* multiset of items.
C7_ReadOnlyAndIdempotent ==
    [][resp'.op = "chargeback_report" =>
          /\ plans' = plans /\ subs' = subs /\ usage' = usage
          /\ (resp.op = "chargeback_report" /\ resp'.period = resp.period) =>
                /\ resp'.status = resp.status
                /\ ItemBag(resp') = ItemBag(resp)]_vars

\* C7 witness: a report with items that follows a report for the same period.
C7_Witness == IsReport /\ resp.again /\ Len(Items) >= 1

\* C9: every stored plan has monthly_price, included_calls and
\* overage_price_per_call >= 0, and so every line has 0 <= overage_calls <= calls
\* and amount >= 0.
C9_PlansNonNegative ==
    /\ \A i \in 1..Len(plans) :
          /\ plans[i].monthly_price >= 0
          /\ plans[i].included_calls >= 0
          /\ plans[i].overage_price_per_call >= 0
    /\ IsReport =>
          \A k \in 1..Len(Items) :
              /\ 0 <= Items[k].overage_calls
              /\ Items[k].overage_calls <= Items[k].calls
              /\ Items[k].amount >= 0

\* A rejected period costs no query: the report fails before the store is read.
RejectedBeforeStoreAccess ==
    (resp.op = "chargeback_report" /\ resp.status # 200) =>
        resp.queries = 0 /\ resp.items = <<>>

----------------------------------------------------------------------------
(* month_bounds on its own: the period tokens of a small alphabet.         *)

YearChars == {"0", "2", "4", "9", "a"}
MonthChars == {"0", "1", "2", "3", "9"}
Separators == {"-", "/"}

Tokens ==
    { y \o <<sep>> \o m :
        y \in [1..4 -> YearChars],
        sep \in Separators,
        m \in {<<>>} \cup [1..1 -> MonthChars] \cup [1..2 -> MonthChars] }
    \cup { <<"a", "b", "c", "d">>,
           <<>>,
           <<"2", "0", "2", "4">>,
           <<"2", "0", "2", "4", "-", "0", "1", "1">>,
           <<"2", "0", "2", "4", "-", "1", "-", "1">>,
           <<"2", "0", "2", "4", "-", " ", "1">>,
           <<"2", "0", "2", "4", "4", "-", "0", "1">>,
           <<"2", "0", "2", "-", "0", "1">> }

InitPeriod ==
    /\ plans = <<>>
    /\ subs = <<>>
    /\ usage = EmptyBag
    /\ resp = [op |-> "none", status |-> 0]
    /\ mt = Idle
    /\ tok \in Tokens
    /\ mb = [called |-> FALSE]

Resolve ==
    /\ ~mb.called
    /\ mb' = [called |-> TRUE, bounds |-> month_bounds(tok)]
    /\ UNCHANGED <<plans, subs, usage, resp, mt, tok>>

NextPeriod == Resolve

SpecPeriod == InitPeriod /\ [][NextPeriod]_vars

\* a token of the form YYYY-MM: four digits, a dash, two digits
IsYYYYMM(t) ==
    /\ Len(t) = 7
    /\ \A i \in {1, 2, 3, 4, 6, 7} : t[i] \in {"0", "1", "2", "3", "4", "5", "6", "7", "8", "9"}
    /\ t[5] = "-"
YearOf(t) == 1000 * DigitVal[t[1]] + 100 * DigitVal[t[2]] + 10 * DigitVal[t[3]] + DigitVal[t[4]]
MonthOf(t) == 10 * DigitVal[t[6]] + DigitVal[t[7]]
\* a valid token: YYYY-MM with a year datetime has and a month 01..12
IsValidToken(t) == IsYYYYMM(t) /\ YearOf(t) \in MINYEAR..MAXYEAR /\ MonthOf(t) \in 1..12

DigitChar == <<"0", "1", "2", "3", "4", "5", "6", "7", "8", "9">>
\* the token of year y and month m
TokenOf(y, m) ==
    << DigitChar[(y \div 1000) + 1], DigitChar[((y \div 100) % 10) + 1],
       DigitChar[((y \div 10) % 10) + 1], DigitChar[(y % 10) + 1], "-",
       DigitChar[(m \div 10) + 1], DigitChar[(m % 10) + 1] >>

\* what C5 says of a valid token t resolved to b
ResolvesToItsMonth(t, b) ==
    LET y == YearOf(t)
        m == MonthOf(t)
        ny == IF m = 12 THEN y + 1 ELSE y
        nm == IF m = 12 THEN 1 ELSE m + 1
    IN  /\ b.status = 200
        /\ b.start = Dt(y, m, 1, 0)
        /\ b.end = Dt(ny, nm, 1, 0)
        /\ DtLt(b.start, b.end)
        /\ toordinal(b.end) - toordinal(b.start) = days_in_month(y, m)
        /\ (y = 2024 /\ m = 2) => toordinal(b.end) - toordinal(b.start) = 29
        /\ ny <= MAXYEAR => month_bounds(TokenOf(ny, nm)).start = b.end

\* C5: for every valid YYYY-MM token month_bounds returns the first instant of the
\* month and the first instant of the following month (December rolling to January
\* of the next year), start < end, end - start the days of the month, and its end is
\* the start of the next period.
C5_MonthBounds ==
    (mb.called /\ IsValidToken(tok)) => ResolvesToItsMonth(tok, mb.bounds)

\* The same for the valid tokens of every year before the last one datetime holds.
MonthBoundsBeforeTheLastYear ==
    (mb.called /\ IsValidToken(tok) /\ YearOf(tok) < MAXYEAR)
        => ResolvesToItsMonth(tok, mb.bounds)

\* C6: month_bounds fails with the 400 of an invalid period for every token that is
\* not YYYY-MM with a four-digit year and a two-digit month 01..12.
C6_MalformedRejected ==
    (mb.called /\ ~IsValidToken(tok)) => mb.bounds.status = 400

\* What is rejected: the tokens strptime cannot read as a date, which leaves the
\* one-digit months 1..9 accepted.
RejectedUnlessYearDashMonth ==
    mb.called =>
        (mb.bounds.status = 400 <=>
            ~(\/ IsValidToken(tok)
              \/ /\ Len(tok) = 6
                 /\ IsValidToken(SubSeq(tok, 1, 5) \o <<"0", tok[6]>>)))

----------------------------------------------------------------------------
(* GET /metrics/overview and GET /metrics/api/{api_id}: a count query, then *)
(* an aggregation query, with other requests served in between.  The       *)
(* counts of the apiservice, consumer and subscription collections that    *)
(* the overview adds are left out.                                         *)

Apis == {"a1", "a2"}
\* the period parameter: absent, empty, well-formed, malformed
MetricPeriods == {None, Some(<<>>), Some(P202401), Some(P202413)}

MetricUsageInputs ==
    { EvtBody(a, "c1", Some(ts), lat, sc) :
        a \in Apis, ts \in {JanStart, FebStart}, lat \in {None, Some(10)}, sc \in {200, 400} }

\* filt: an optional api_id and an optional [start, end)
FiltMatches(e, api, range) ==
    /\ api # None => e.api_id = api[1]
    /\ range # None => InRange(e.timestamp, range[1].start, range[1].end)

\* the first query of both handlers: the filter, then count_documents(filt)
metrics_count(op, api, period) ==
    /\ mt.pc = "idle"
    /\ \E b \in {IF period # None /\ period[1] # <<>>
                 THEN month_bounds(period[1]) ELSE Bounds(200, NoDt, NoDt)} :
          LET range == IF period # None /\ period[1] # <<>> THEN Some(b) ELSE None
          IN  IF b.status # 200
              THEN /\ resp' = Failed(op, b.status)
                   /\ UNCHANGED mt
              ELSE /\ mt' = [pc |-> "counted", op |-> op, api |-> api, range |-> range,
                             total_calls |->
                                 CountUsage({e \in DOMAIN usage : FiltMatches(e, api, range)})]
                   /\ UNCHANGED resp
    /\ UNCHANGED <<plans, subs, usage, tok, mb>>

\* {"$sum": {"$cond": [{"$lt": ["$status_code", 400]}, 1, 0]}}
IsSuccess(e) == e.status_code < 400

\* the second query, the $match/$group pipeline, and the response
metrics_aggregate ==
    /\ mt.pc = "counted"
    /\ LET hit(e) == FiltMatches(e, mt.api, mt.range)
           agg == CountUsage({e \in DOMAIN usage : hit(e)}) > 0     \* the group exists
           timed == {d \in DOMAIN usage : hit(d) /\ d.latency_ms # None}
           nlat == BagCardinality([e \in timed |-> usage[e]])
           sumlat == BagCardinality([e \in timed |-> usage[e] * e.latency_ms[1]])
           avg_latency == IF agg /\ nlat > 0 THEN Some([sum |-> sumlat, n |-> nlat]) ELSE None
           success == IF agg THEN CountUsage({e \in DOMAIN usage : hit(e) /\ IsSuccess(e)}) ELSE 0
       IN  resp' = [op |-> mt.op, status |-> 200, api |-> mt.api, range |-> mt.range,
                    total_calls |-> mt.total_calls,
                    avg_latency_ms |-> avg_latency,
                    success_rate |-> IF mt.total_calls # 0
                                     THEN Some([num |-> success, den |-> mt.total_calls])
                                     ELSE None]
    /\ mt' = Idle
    /\ UNCHANGED <<plans, subs, usage, tok, mb>>

MetricsOverview == \E p \in MetricPeriods : metrics_count("metrics_overview", None, p)
MetricsByApi ==
    \E a \in Apis, p \in MetricPeriods : metrics_count("metrics_by_api", Some(a), p)
MetricsAggregate == metrics_aggregate
IngestMetricUsage == \E e \in MetricUsageInputs, now \in NowSet : ingest_usage(e, now)

NextMetrics ==
    \/ MetricsOverview
    \/ MetricsByApi
    \/ MetricsAggregate
    \/ IngestMetricUsage

SpecMetrics == Init /\ [][NextMetrics]_vars

IsMetrics == resp.op \in {"metrics_overview", "metrics_by_api"} /\ resp.status = 200

\* the usage events that match the filter of the response, and the successes among them
Matching ==
    BagCardinality([e \in {d \in DOMAIN usage : FiltMatches(d, resp.api, resp.range)}
                    |-> usage[e]])
MatchingSuccesses ==
    BagCardinality([e \in {d \in DOMAIN usage :
                              FiltMatches(d, resp.api, resp.range) /\ d.status_code < 400}
                    |-> usage[e]])

MetricsOfTheStore ==
    /\ Matching = 0 =>
          /\ resp.total_calls = 0
          /\ resp.success_rate = None
          /\ resp.avg_latency_ms = None
    /\ resp.total_calls = 0 =>
          /\ resp.success_rate = None
          /\ resp.avg_latency_ms = None
    /\ Matching >= 1 =>
          /\ resp.total_calls = Matching
          /\ resp.success_rate = Some([num |-> MatchingSuccesses, den |-> resp.total_calls])

\* C8: with no usage event matching the filter the metrics are total_calls = 0,
\* success_rate = null and avg_latency_ms = null; with at least one, success_rate is
\* the matching events of status_code < 400 over total_calls.
C8_NullWhenNothingMatches == IsMetrics => MetricsOfTheStore

\* The same for the responses whose count was still right when the handler
\* aggregated: no matching event came in between its two queries.
MetricsWhenNothingCameBetween ==
    (IsMetrics /\ resp.total_calls = Matching) => MetricsOfTheStore

\* C10: success_rate is null or within [0, 1]: the successes never exceed
\* total_calls, also with ingest_usage served between the two queries.
C10_SuccessRateWithinUnit ==
    (IsMetrics /\ resp.success_rate # None) =>
        /\ 0 <= resp.success_rate[1].num
        /\ resp.success_rate[1].num <= resp.success_rate[1].den

====
